---- MODULE Spec2Model ----
(***************************************************************************)
(* State-machine model of nexustrader.core.cache.AsyncCache: the in-memory *)
(* stores of orders, algo orders, positions and balances with the three    *)
(* order indices, the transition guard, the write-behind flush to SQLite   *)
(* or Redis run by _periodic_sync and by close(), the Reaper, and the      *)
(* read-through of get_order.                                              *)
(***************************************************************************)
EXTENDS Naturals, FiniteSets, Sequences, TLC

VARIABLES
    _mem_orders,              \* uuid -> Order (a dict: a function on the stored uuids)
    _mem_algo_orders,         \* uuid -> AlgoOrder
    _mem_open_orders,         \* defaultdict(set): exchange -> set of uuids
    _mem_symbol_open_orders,  \* defaultdict(set): symbol -> set of uuids
    _mem_symbol_orders,       \* defaultdict(set): symbol -> set of uuids
    _mem_positions,           \* symbol -> Position
    _mem_account_balance,     \* defaultdict(AccountBalance): account type -> asset -> Balance
    _storage_backend,         \* "SQLITE" or "REDIS"
    conn,                     \* the backend connection: "open" or "closed"
    db,                       \* what the backend holds: the committed tables / the keys
    tx,                       \* the tables as the writing connection _db_async sees them
    sync_pc,                  \* task -> the await the flushing coroutine is suspended at
    sync_snapshot,            \* task -> the .copy() the current loop of the flush iterates
    sync_todo,                \* task -> the keys of the copy not written yet
    sync_iter,                \* task -> the iterator over a live set / dict of the flush
    now,                      \* self._clock.timestamp_ms(), in clock ticks
    log_warn,                 \* uuids logged as "is not closed, but expired"
    first_terminal,           \* history: the first terminal status stored for a uuid
    pos_closed,               \* history: symbols whose position was removed on close
    clean,                    \* history: entities not written to since the cycle began,
                              \* and closed positions not applied since
    history,                  \* history: the order events in their order of arrival
    last                      \* the last operation and its outcome

vars == <<_mem_orders, _mem_algo_orders, _mem_open_orders, _mem_symbol_open_orders,
          _mem_symbol_orders, _mem_positions, _mem_account_balance, _storage_backend,
          conn, db, tx, sync_pc, sync_snapshot, sync_todo, sync_iter, now,
          log_warn, first_terminal, pos_closed, clean, history, last>>

orderVars == <<_mem_orders, _mem_open_orders, _mem_symbol_open_orders, _mem_symbol_orders>>
syncVars == <<_storage_backend, conn, db, tx, sync_pc, sync_snapshot, sync_todo, sync_iter>>
posVars == <<_mem_positions, pos_closed>>
algoVars == <<_mem_algo_orders>>
balanceVars == <<_mem_account_balance>>
memVars == <<orderVars, _mem_algo_orders, _mem_positions, _mem_account_balance>>

-----------------------------------------------------------------------------
(* Bounds *)

\* the clock runs from 0 to MaxNow
MaxNow == 2
\* self._expired_time, in clock ticks
expired_time == 1
\* position amounts run from 0 to MaxAmount
MaxAmount == 2
\* the free amount of a balance runs from 0 to MaxFree
MaxFree == 2
\* the order events a history records at most
MaxArrivals == 3

-----------------------------------------------------------------------------
(* constants.py *)

OrderStatus ==
    {"INITIALIZED", "FAILED", "CANCEL_FAILED", "PENDING", "CANCELING",
     "ACCEPTED", "PARTIALLY_FILLED", "FILLED", "CANCELED", "EXPIRED"}

ExchangeType == {"binance", "okx"}

STATUS_TRANSITIONS ==
    [s \in {"PENDING", "CANCELING", "ACCEPTED", "PARTIALLY_FILLED",
            "FILLED", "CANCELED", "EXPIRED", "FAILED"} |->
        CASE s = "PENDING" ->
                {"CANCELED", "CANCELING", "ACCEPTED", "PARTIALLY_FILLED",
                 "FILLED", "CANCEL_FAILED"}
          [] s = "CANCELING" -> {"CANCELED", "PARTIALLY_FILLED", "FILLED"}
          [] s = "ACCEPTED" ->
                {"PARTIALLY_FILLED", "FILLED", "CANCELING", "CANCELED",
                 "EXPIRED", "CANCEL_FAILED"}
          [] s = "PARTIALLY_FILLED" ->
                {"PARTIALLY_FILLED", "FILLED", "CANCELING", "CANCELED",
                 "EXPIRED", "CANCEL_FAILED"}
          [] OTHER -> {}]

\* the statuses the table maps to the empty list
TerminalStatus == {"FILLED", "CANCELED", "EXPIRED", "FAILED"}

AlgoOrderStatus == {"RUNNING", "FINISHED"}

StorageBackend == {"REDIS", "SQLITE"}

-----------------------------------------------------------------------------
(* The orders the event handlers are called with *)

Uuids == {"o1"}
\* the uuids of the scenarios with several orders
ManyUuids == {"o1", "o2"}
\* the uuids of algo orders carry the reserved prefix
AlgoUuids == {"ALGO-a1"}
Symbols == {"BTCUSDT.BINANCE", "BTCUSDT.OKX"}
AccountTypes == {"SPOT"}
Assets == {"USDT"}

\* uuid.startswith("ALGO-")
startswith_ALGO(uuid) == uuid \in AlgoUuids

\* an order's uuid identifies one order: its symbol and exchange are fixed
SymbolOf == [u \in ManyUuids \cup AlgoUuids |-> "BTCUSDT.BINANCE"]
ExchangeOfSymbol == [s \in Symbols |-> IF s = "BTCUSDT.BINANCE" THEN "binance" ELSE "okx"]

Order(u, s, t) ==
    [uuid |-> u, exchange |-> ExchangeOfSymbol[SymbolOf[u]], symbol |-> SymbolOf[u],
     status |-> s, timestamp |-> t]

AlgoOrder(u, s, t) ==
    [uuid |-> u, symbol |-> SymbolOf[u], status |-> s, timestamp |-> t]

\* isinstance(order, AlgoOrder): an AlgoOrder has no exchange field
isinstance_AlgoOrder(order) == "exchange" \notin DOMAIN order

Balance(a, f, l) == [asset |-> a, free |-> f, locked |-> l]

\* Order.is_closed
order_is_closed(order) == order.status \in {"FILLED", "CANCELED", "EXPIRED", "FAILED"}

\* the value of "no record": Optional None / Maybe Nothing
Nothing == [uuid |-> "-"]

-----------------------------------------------------------------------------
(* dict and defaultdict(set) *)

DictSet(d, k, v) == [x \in (DOMAIN d) \cup {k} |-> IF x = k THEN v ELSE d[x]]
DictDel(d, k) == [x \in (DOMAIN d) \ {k} |-> d[x]]

\* d[k] of a defaultdict(set), as a value
DefaultGet(d, k) == IF k \in DOMAIN d THEN d[k] ELSE {}
\* d[k].add(u): the lookup creates the key
DefaultAdd(d, k, u) == DictSet(d, k, DefaultGet(d, k) \cup {u})
\* d[k].discard(u): the lookup creates the key
DefaultDiscard(d, k, u) == DictSet(d, k, DefaultGet(d, k) \ {u})

-----------------------------------------------------------------------------
(* _encode / _decode: msgspec JSON *)

\* the fields of the structs, in the order msgspec writes them
struct_fields ==
    [Order |-> <<"uuid", "exchange", "symbol", "status", "timestamp">>,
     AlgoOrder |-> <<"uuid", "symbol", "status", "timestamp">>,
     Position |-> <<"symbol", "exchange", "side", "amount">>,
     Balance |-> <<"asset", "free", "locked">>]

\* the struct type of a value, told from its fields
struct_type(obj) ==
    CHOOSE t \in DOMAIN struct_fields :
        DOMAIN obj = {struct_fields[t][i] : i \in DOMAIN struct_fields[t]}

\* msgspec.json.encode(obj): the JSON object as a sequence of name / value pairs
_encode(obj) ==
    LET fields == struct_fields[struct_type(obj)] IN
    [i \in DOMAIN fields |-> <<fields[i], obj[fields[i]]>>]

\* what msgspec.json.decode raises for data that is no JSON object of obj_type
DecodeError == [uuid |-> "msgspec.DecodeError"]

\* bytes that are no JSON document
Garbage == << <<"{">> >>

\* data is the JSON object of a struct of type obj_type
is_json_of(data, obj_type) ==
    /\ Len(data) = Len(struct_fields[obj_type])
    /\ \A i \in DOMAIN data : Len(data[i]) = 2 /\ data[i][1] = struct_fields[obj_type][i]

\* msgspec.json.decode(data, type=obj_type)
_decode(data, obj_type) ==
    IF ~is_json_of(data, obj_type) THEN DecodeError
    ELSE CASE obj_type = "Order" ->
                [uuid |-> data[1][2], exchange |-> data[2][2], symbol |-> data[3][2],
                 status |-> data[4][2], timestamp |-> data[5][2]]
           [] obj_type = "AlgoOrder" ->
                [uuid |-> data[1][2], symbol |-> data[2][2], status |-> data[3][2],
                 timestamp |-> data[4][2]]
           [] obj_type = "Position" ->
                [symbol |-> data[1][2], exchange |-> data[2][2], side |-> data[3][2],
                 amount |-> data[4][2]]
           [] obj_type = "Balance" ->
                [asset |-> data[1][2], free |-> data[2][2], locked |-> data[3][2]]

-----------------------------------------------------------------------------
(* Transition guard *)

\* _check_status_transition: "ok" (True), "reject" (False), or the KeyError of
\* STATUS_TRANSITIONS[previous_order.status] for a status that is no key
_check_status_transition(order) ==
    IF order.uuid \notin DOMAIN _mem_orders
    THEN "ok"
    ELSE LET previous_order == _mem_orders[order.uuid] IN
         IF previous_order.status \notin DOMAIN STATUS_TRANSITIONS
         THEN "KeyError"
         ELSE IF order.status \notin STATUS_TRANSITIONS[previous_order.status]
              THEN "reject"
              ELSE "ok"

\* how a handler call ends: the record is inserted (first write), replaced,
\* dropped (the guard returned False), or the call raised
GuardResult(order) ==
    CASE _check_status_transition(order) = "ok" ->
            IF order.uuid \in DOMAIN _mem_orders THEN "replaced" ELSE "inserted"
      [] _check_status_transition(order) = "reject" -> "dropped"
      [] OTHER -> "raised"

\* history variable: remembers the first terminal status stored for each uuid
NoteTerminal(order) ==
    first_terminal' =
        IF order.status \in TerminalStatus /\ order.uuid \notin DOMAIN first_terminal
        THEN DictSet(first_terminal, order.uuid, order.status)
        ELSE first_terminal

Did(op, u, res) == [op |-> op, uuid |-> u, result |-> res, records |-> << >>]

\* the names of the entities of the four stores
OrderKey(uuid) == <<"order", uuid, "-">>
AlgoOrderKey(uuid) == <<"algo_order", uuid, "-">>
PositionKey(symbol) == <<"position", symbol, "-">>
BalanceKey(account_type, asset) == <<"balance", account_type, asset>>

\* history variable: the entities of keys have been written to
NoteWrite(keys) ==
    clean' = IF clean.on
             THEN [clean EXCEPT !.keys = @ \ keys,
                                !.gone = @ \ {key[2] : key \in {k \in keys : k[1] = "position"}}]
             ELSE clean

\* history variable: the order event op(order) has arrived
NoteArrival(op, order) ==
    history' = IF history.on
               THEN [history EXCEPT !.arrivals = Append(@, [op |-> op, order |-> order])]
               ELSE history

-----------------------------------------------------------------------------
(* Event handlers *)

\* _order_initialized without the line that adds to _mem_symbol_open_orders
_order_initialized_no_symbol_open(order) ==
    /\ IF isinstance_AlgoOrder(order)
       THEN /\ _mem_algo_orders' = DictSet(_mem_algo_orders, order.uuid, order)
            /\ last' = Did("order_initialized", order.uuid, "algo")
            /\ NoteWrite({AlgoOrderKey(order.uuid)})
            /\ UNCHANGED <<orderVars, first_terminal>>
       ELSE /\ last' = Did("order_initialized", order.uuid, GuardResult(order))
            /\ IF _check_status_transition(order) = "ok"
               THEN /\ _mem_orders' = DictSet(_mem_orders, order.uuid, order)
                    /\ _mem_open_orders' =
                           DefaultAdd(_mem_open_orders, order.exchange, order.uuid)
                    /\ _mem_symbol_orders' =
                           DefaultAdd(_mem_symbol_orders, order.symbol, order.uuid)
                    /\ UNCHANGED _mem_symbol_open_orders
                    /\ NoteTerminal(order)
                    /\ NoteWrite({OrderKey(order.uuid)})
               ELSE UNCHANGED <<orderVars, first_terminal, clean>>
            /\ UNCHANGED _mem_algo_orders
    /\ NoteArrival("order_initialized", order)
    /\ UNCHANGED <<posVars, balanceVars, syncVars, now, log_warn>>

\* _order_initialized
_order_initialized(order) ==
    /\ IF isinstance_AlgoOrder(order)
       THEN /\ _mem_algo_orders' = DictSet(_mem_algo_orders, order.uuid, order)
            /\ last' = Did("order_initialized", order.uuid, "algo")
            /\ NoteWrite({AlgoOrderKey(order.uuid)})
            /\ UNCHANGED <<orderVars, first_terminal>>
       ELSE /\ last' = Did("order_initialized", order.uuid, GuardResult(order))
            /\ IF _check_status_transition(order) = "ok"
               THEN /\ _mem_orders' = DictSet(_mem_orders, order.uuid, order)
                    /\ _mem_open_orders' =
                           DefaultAdd(_mem_open_orders, order.exchange, order.uuid)
                    /\ _mem_symbol_orders' =
                           DefaultAdd(_mem_symbol_orders, order.symbol, order.uuid)
                    /\ _mem_symbol_open_orders' =
                           DefaultAdd(_mem_symbol_open_orders, order.symbol, order.uuid)
                    /\ NoteTerminal(order)
                    /\ NoteWrite({OrderKey(order.uuid)})
               ELSE UNCHANGED <<orderVars, first_terminal, clean>>
            /\ UNCHANGED _mem_algo_orders
    /\ NoteArrival("order_initialized", order)
    /\ UNCHANGED <<posVars, balanceVars, syncVars, now, log_warn>>

\* _order_status_update that takes a closed order out of the per-exchange
\* open set only
_order_status_update_keeps_symbol_open(order) ==
    /\ IF isinstance_AlgoOrder(order)
       THEN /\ _mem_algo_orders' = DictSet(_mem_algo_orders, order.uuid, order)
            /\ last' = Did("order_status_update", order.uuid, "algo")
            /\ NoteWrite({AlgoOrderKey(order.uuid)})
            /\ UNCHANGED <<orderVars, first_terminal>>
       ELSE /\ last' = Did("order_status_update", order.uuid, GuardResult(order))
            /\ IF _check_status_transition(order) = "ok"
               THEN /\ _mem_orders' = DictSet(_mem_orders, order.uuid, order)
                    /\ IF order_is_closed(order)
                       THEN _mem_open_orders' =
                                DefaultDiscard(_mem_open_orders, order.exchange, order.uuid)
                       ELSE UNCHANGED _mem_open_orders
                    /\ UNCHANGED <<_mem_symbol_orders, _mem_symbol_open_orders>>
                    /\ NoteTerminal(order)
                    /\ NoteWrite({OrderKey(order.uuid)})
               ELSE UNCHANGED <<orderVars, first_terminal, clean>>
            /\ UNCHANGED _mem_algo_orders
    /\ NoteArrival("order_status_update", order)
    /\ UNCHANGED <<posVars, balanceVars, syncVars, now, log_warn>>

\* _order_status_update that stores the record before it consults the guard
_order_status_update_store_first(order) ==
    /\ IF isinstance_AlgoOrder(order)
       THEN /\ _mem_algo_orders' = DictSet(_mem_algo_orders, order.uuid, order)
            /\ last' = Did("order_status_update", order.uuid, "algo")
            /\ NoteWrite({AlgoOrderKey(order.uuid)})
            /\ UNCHANGED <<orderVars, first_terminal>>
       ELSE /\ last' = Did("order_status_update", order.uuid, GuardResult(order))
            /\ IF _check_status_transition(order) # "KeyError"
               THEN /\ _mem_orders' = DictSet(_mem_orders, order.uuid, order)
                    /\ IF order_is_closed(order) /\ _check_status_transition(order) = "ok"
                       THEN /\ _mem_open_orders' =
                                   DefaultDiscard(_mem_open_orders, order.exchange, order.uuid)
                            /\ _mem_symbol_open_orders' =
                                   DefaultDiscard(_mem_symbol_open_orders, order.symbol,
                                                  order.uuid)
                       ELSE UNCHANGED <<_mem_open_orders, _mem_symbol_open_orders>>
                    /\ UNCHANGED _mem_symbol_orders
                    /\ NoteTerminal(order)
                    /\ NoteWrite({OrderKey(order.uuid)})
               ELSE UNCHANGED <<orderVars, first_terminal, clean>>
            /\ UNCHANGED _mem_algo_orders
    /\ NoteArrival("order_status_update", order)
    /\ UNCHANGED <<posVars, balanceVars, syncVars, now, log_warn>>

\* _order_status_update with a guard for algo orders: a finished one is kept
_order_status_update_guards_algo(order) ==
    /\ IF isinstance_AlgoOrder(order)
       THEN IF /\ order.uuid \in DOMAIN _mem_algo_orders
               /\ _mem_algo_orders[order.uuid].status = "FINISHED"
            THEN /\ last' = Did("order_status_update", order.uuid, "dropped")
                 /\ UNCHANGED <<orderVars, _mem_algo_orders, first_terminal, clean>>
            ELSE /\ _mem_algo_orders' = DictSet(_mem_algo_orders, order.uuid, order)
                 /\ last' = Did("order_status_update", order.uuid, "algo")
                 /\ NoteWrite({AlgoOrderKey(order.uuid)})
                 /\ UNCHANGED <<orderVars, first_terminal>>
       ELSE /\ last' = Did("order_status_update", order.uuid, GuardResult(order))
            /\ IF _check_status_transition(order) = "ok"
               THEN /\ _mem_orders' = DictSet(_mem_orders, order.uuid, order)
                    /\ IF order_is_closed(order)
                       THEN /\ _mem_open_orders' =
                                   DefaultDiscard(_mem_open_orders, order.exchange, order.uuid)
                            /\ _mem_symbol_open_orders' =
                                   DefaultDiscard(_mem_symbol_open_orders, order.symbol,
                                                  order.uuid)
                       ELSE UNCHANGED <<_mem_open_orders, _mem_symbol_open_orders>>
                    /\ UNCHANGED _mem_symbol_orders
                    /\ NoteTerminal(order)
                    /\ NoteWrite({OrderKey(order.uuid)})
               ELSE UNCHANGED <<orderVars, first_terminal, clean>>
            /\ UNCHANGED _mem_algo_orders
    /\ NoteArrival("order_status_update", order)
    /\ UNCHANGED <<posVars, balanceVars, syncVars, now, log_warn>>

\* _order_status_update
_order_status_update(order) ==
    /\ IF isinstance_AlgoOrder(order)
       THEN /\ _mem_algo_orders' = DictSet(_mem_algo_orders, order.uuid, order)
            /\ last' = Did("order_status_update", order.uuid, "algo")
            /\ NoteWrite({AlgoOrderKey(order.uuid)})
            /\ UNCHANGED <<orderVars, first_terminal>>
       ELSE /\ last' = Did("order_status_update", order.uuid, GuardResult(order))
            /\ IF _check_status_transition(order) = "ok"
               THEN /\ _mem_orders' = DictSet(_mem_orders, order.uuid, order)
                    /\ IF order_is_closed(order)
                       THEN /\ _mem_open_orders' =
                                   DefaultDiscard(_mem_open_orders, order.exchange, order.uuid)
                            /\ _mem_symbol_open_orders' =
                                   DefaultDiscard(_mem_symbol_open_orders, order.symbol,
                                                  order.uuid)
                       ELSE UNCHANGED <<_mem_open_orders, _mem_symbol_open_orders>>
                    /\ UNCHANGED _mem_symbol_orders
                    /\ NoteTerminal(order)
                    /\ NoteWrite({OrderKey(order.uuid)})
               ELSE UNCHANGED <<orderVars, first_terminal, clean>>
            /\ UNCHANGED _mem_algo_orders
    /\ NoteArrival("order_status_update", order)
    /\ UNCHANGED <<posVars, balanceVars, syncVars, now, log_warn>>

-----------------------------------------------------------------------------
(* Read-through *)

\* the memory map, the backend table and the struct type that
\* _get_order_from_sqlite / _get_order_from_redis select by the uuid's prefix
mem_dict(uuid) == IF startswith_ALGO(uuid) THEN _mem_algo_orders ELSE _mem_orders
table_of(uuid) == IF startswith_ALGO(uuid) THEN db.algo_orders ELSE db.orders
obj_type_of(uuid) == IF startswith_ALGO(uuid) THEN "AlgoOrder" ELSE "Order"

\* what _get_order_from_redis returns (DecodeError: what it raises)
_get_order_from_redis(uuid) ==
    IF uuid \in DOMAIN mem_dict(uuid) THEN mem_dict(uuid)[uuid]
    ELSE IF uuid \in DOMAIN table_of(uuid)
         THEN _decode(table_of(uuid)[uuid], obj_type_of(uuid))
         ELSE Nothing

\* what _get_order_from_sqlite returns (DecodeError: what it raises); the
\* sqlite3.Error of a closed self._db is caught and None is returned
_get_order_from_sqlite(uuid) ==
    IF uuid \in DOMAIN mem_dict(uuid) THEN mem_dict(uuid)[uuid]
    ELSE IF conn = "closed" THEN Nothing
    ELSE IF uuid \in DOMAIN table_of(uuid)
         THEN _decode(table_of(uuid)[uuid], obj_type_of(uuid))
         ELSE Nothing

\* what get_order returns
get_order_result(uuid) ==
    IF _storage_backend = "REDIS"
    THEN _get_order_from_redis(uuid)
    ELSE _get_order_from_sqlite(uuid)

\* a get_order that returns what the backend holds and keeps no copy of it
get_order_no_store(uuid) ==
    LET order == get_order_result(uuid)
        miss == uuid \notin DOMAIN mem_dict(uuid)
    IN
    /\ last' = [op |-> "get_order", uuid |-> uuid,
                result |-> CASE ~miss -> "hit"
                             [] order = Nothing -> "none"
                             [] order = DecodeError -> "raised"
                             [] OTHER -> "loaded",
                records |-> IF order = Nothing \/ order = DecodeError
                            THEN << >> ELSE <<order>>]
    /\ UNCHANGED <<memVars, pos_closed, syncVars, now, log_warn, first_terminal, clean,
                   history>>

\* get_order
get_order(uuid) ==
    LET order == get_order_result(uuid)
        miss == uuid \notin DOMAIN mem_dict(uuid)
        loads == miss /\ order # Nothing /\ order # DecodeError
    IN
    /\ last' = [op |-> "get_order", uuid |-> uuid,
                result |-> CASE ~miss -> "hit"
                             [] order = Nothing -> "none"
                             [] order = DecodeError -> "raised"
                             [] OTHER -> "loaded",
                records |-> IF order = Nothing \/ order = DecodeError
                            THEN << >> ELSE <<order>>]
    /\ IF loads /\ ~startswith_ALGO(uuid)
       THEN /\ _mem_orders' = DictSet(_mem_orders, uuid, order)
            /\ NoteTerminal(order)
            /\ NoteWrite({OrderKey(uuid)})
            /\ UNCHANGED _mem_algo_orders
       ELSE IF loads
            THEN /\ _mem_algo_orders' = DictSet(_mem_algo_orders, uuid, order)
                 /\ NoteWrite({AlgoOrderKey(uuid)})
                 /\ UNCHANGED <<_mem_orders, first_terminal>>
            ELSE UNCHANGED <<_mem_orders, _mem_algo_orders, first_terminal, clean>>
    /\ UNCHANGED <<_mem_open_orders, _mem_symbol_open_orders, _mem_symbol_orders,
                   posVars, balanceVars, syncVars, now, log_warn, history>>

-----------------------------------------------------------------------------
(* Positions *)

PositionSide == {"LONG", "SHORT"}

\* the positions _apply_position is called with: an open one has a side and a
\* non-zero amount, a closed one is flat with amount zero
Positions ==
    {[symbol |-> s, exchange |-> ExchangeOfSymbol[s], side |-> d, amount |-> a] :
        s \in Symbols, d \in PositionSide, a \in 1..MaxAmount}
    \cup
    {[symbol |-> s, exchange |-> ExchangeOfSymbol[s], side |-> "FLAT", amount |-> 0] :
        s \in Symbols}

\* Position.is_closed: amount zero / flat
position_is_closed(position) == position.amount = 0
\* Position.is_opened
position_is_opened(position) == ~position_is_closed(position)

\* _apply_position that stores a closed position instead of removing it
_apply_position_keep_closed(position) ==
    /\ _mem_positions' = DictSet(_mem_positions, position.symbol, position)
    /\ pos_closed' = IF position_is_closed(position) /\ position.symbol \in DOMAIN _mem_positions
                     THEN pos_closed \cup {position.symbol}
                     ELSE pos_closed
    /\ last' = Did("apply_position", position.symbol,
                   IF ~position_is_closed(position) THEN "stored"
                   ELSE IF position.symbol \in DOMAIN _mem_positions
                        THEN "removed" ELSE "absent")
    /\ NoteWrite({PositionKey(position.symbol)})
    /\ UNCHANGED <<orderVars, algoVars, balanceVars, syncVars, now, log_warn,
                   first_terminal, history>>

\* _apply_position
_apply_position(position) ==
    /\ IF position_is_closed(position)
       THEN /\ _mem_positions' = DictDel(_mem_positions, position.symbol)
            /\ pos_closed' = IF position.symbol \in DOMAIN _mem_positions
                             THEN pos_closed \cup {position.symbol}
                             ELSE pos_closed
            /\ last' = Did("apply_position", position.symbol,
                           IF position.symbol \in DOMAIN _mem_positions
                           THEN "removed" ELSE "absent")
       ELSE /\ _mem_positions' = DictSet(_mem_positions, position.symbol, position)
            /\ pos_closed' = pos_closed
            /\ last' = Did("apply_position", position.symbol, "stored")
    /\ NoteWrite({PositionKey(position.symbol)})
    /\ UNCHANGED <<orderVars, algoVars, balanceVars, syncVars, now, log_warn,
                   first_terminal, history>>

\* what get_position returns
get_position_result(symbol) ==
    IF symbol \in DOMAIN _mem_positions THEN _mem_positions[symbol] ELSE Nothing

\* what get_all_positions returns; exchange "None" is the absent filter
get_all_positions_result(exchange) ==
    [s \in {x \in DOMAIN _mem_positions :
               /\ (exchange = "None" \/ _mem_positions[x].exchange = exchange)
               /\ position_is_opened(_mem_positions[x])} |-> _mem_positions[s]]

\* get_position
get_position(symbol) ==
    /\ last' = Did("get_position", symbol,
                   IF get_position_result(symbol) = Nothing THEN "nothing" ELSE "some")
    /\ UNCHANGED <<memVars, pos_closed, syncVars, now, log_warn, first_terminal,
                   clean, history>>

\* get_all_positions
get_all_positions(exchange) ==
    /\ last' = [op |-> "get_all_positions", uuid |-> exchange, result |-> "done",
                records |-> get_all_positions_result(exchange)]
    /\ UNCHANGED <<memVars, pos_closed, syncVars, now, log_warn, first_terminal,
                   clean, history>>

-----------------------------------------------------------------------------
(* Balances *)

\* the entry of a defaultdict(AccountBalance), as a value
account_balance(account_type) ==
    IF account_type \in DOMAIN _mem_account_balance
    THEN _mem_account_balance[account_type]
    ELSE << >>

\* AccountBalance._apply: each delta is added to the asset's pair, an unknown
\* asset starts from zero
AccountBalance_apply(account, balances) ==
    [asset \in (DOMAIN account) \cup {balances[i].asset : i \in DOMAIN balances} |->
        LET before == IF asset \in DOMAIN account THEN account[asset]
                      ELSE Balance(asset, 0, 0)
            deltas == {i \in DOMAIN balances : balances[i].asset = asset}
        IN IF deltas = {} THEN before
           ELSE LET delta == balances[CHOOSE i \in deltas : TRUE] IN
                Balance(asset, before.free + delta.free, before.locked + delta.locked)]

\* _apply_balance; the lookup creates the account type's entry
_apply_balance(account_type, balances) ==
    /\ _mem_account_balance' =
           DictSet(_mem_account_balance, account_type,
                   AccountBalance_apply(account_balance(account_type), balances))
    /\ last' = Did("apply_balance", account_type, "done")
    /\ NoteWrite({BalanceKey(account_type, balances[i].asset) : i \in DOMAIN balances})
    /\ UNCHANGED <<orderVars, algoVars, posVars, syncVars, now, log_warn, first_terminal,
                   history>>

\* get_balance; the lookup creates the account type's entry
get_balance(account_type) ==
    /\ _mem_account_balance' =
           DictSet(_mem_account_balance, account_type, account_balance(account_type))
    /\ last' = [op |-> "get_balance", uuid |-> account_type, result |-> "done",
                records |-> account_balance(account_type)]
    /\ UNCHANGED <<orderVars, algoVars, posVars, syncVars, now, log_warn, first_terminal,
                   clean, history>>

-----------------------------------------------------------------------------
(* Reads of the indices *)

\* what get_open_orders returns; "None" is an absent argument, ValueError what
\* it raises when both are absent
get_open_orders_result(symbol, exchange) ==
    IF symbol # "None" THEN DefaultGet(_mem_symbol_open_orders, symbol)
    ELSE IF exchange # "None" THEN DefaultGet(_mem_open_orders, exchange)
    ELSE {"ValueError"}

\* get_open_orders; the lookup in the defaultdict creates the key
get_open_orders(symbol, exchange) ==
    /\ IF symbol # "None"
       THEN /\ _mem_symbol_open_orders' =
                   DictSet(_mem_symbol_open_orders, symbol,
                           DefaultGet(_mem_symbol_open_orders, symbol))
            /\ UNCHANGED _mem_open_orders
       ELSE IF exchange # "None"
       THEN /\ _mem_open_orders' =
                   DictSet(_mem_open_orders, exchange, DefaultGet(_mem_open_orders, exchange))
            /\ UNCHANGED _mem_symbol_open_orders
       ELSE UNCHANGED <<_mem_open_orders, _mem_symbol_open_orders>>
    /\ last' = [op |-> "get_open_orders", uuid |-> symbol, exchange |-> exchange,
                result |-> IF symbol = "None" /\ exchange = "None" THEN "raised" ELSE "done",
                records |-> get_open_orders_result(symbol, exchange)]
    /\ UNCHANGED <<_mem_orders, _mem_symbol_orders, algoVars, posVars, balanceVars, syncVars,
                   now, log_warn, first_terminal, clean, history>>

\* what get_symbol_orders(symbol, in_mem=True) returns
get_symbol_orders_result(symbol) ==
    IF symbol \in DOMAIN _mem_symbol_orders THEN _mem_symbol_orders[symbol] ELSE {}

\* get_symbol_orders(symbol, in_mem=True)
get_symbol_orders(symbol) ==
    /\ last' = [op |-> "get_symbol_orders", uuid |-> symbol, result |-> "done",
                records |-> get_symbol_orders_result(symbol)]
    /\ UNCHANGED <<memVars, pos_closed, syncVars, now, log_warn, first_terminal, clean,
                   history>>

-----------------------------------------------------------------------------
(* The backend *)

\* the tables of SQLite / the keys of Redis, all empty
EmptyTables ==
    [orders |-> << >>,                \* uuid -> data
     algo_orders |-> << >>,           \* uuid -> data
     positions |-> << >>,             \* symbol -> [exchange, data]
     open_orders |-> << >>,           \* SQLite: uuid -> [exchange, symbol]
     balances |-> << >>,              \* <<account type, asset>> -> the row / the blob
     exchange_open_orders |-> << >>,  \* Redis: exchange -> set of uuids
     symbol_orders |-> << >>,         \* Redis: symbol -> set of uuids
     symbol_open_orders |-> << >>]    \* Redis: symbol -> set of uuids

db_orders == db.orders

\* str(Decimal) and Decimal(str)
str(x) == <<"str", x>>
Decimal(text) == text[2]

\* the tasks that run a flush: the _periodic_sync task and the caller of close()
Tasks == {"periodic", "close"}

\* a write of table[key] = value: Redis applies it at once, SQLite keeps it in
\* the transaction of _db_async until the commit
Put(table, key, value) ==
    IF _storage_backend = "REDIS"
    THEN /\ db' = [db EXCEPT ![table] = DictSet(@, key, value)]
         /\ UNCHANGED tx
    ELSE /\ tx' = [tx EXCEPT ![table] = DictSet(@, key, value)]
         /\ UNCHANGED db

\* a delete of table[key] for the keys in keys
Delete(table, keys) ==
    IF _storage_backend = "REDIS"
    THEN /\ db' = [db EXCEPT ![table] = [k \in (DOMAIN @) \ keys |-> @[k]]]
         /\ UNCHANGED tx
    ELSE /\ tx' = [tx EXCEPT ![table] = [k \in (DOMAIN @) \ keys |-> @[k]]]
         /\ UNCHANGED db

-----------------------------------------------------------------------------
(* The flushing coroutine between two awaits *)

\* no iterator
NoIter == [key |-> "-", visited |-> {}, used |-> 0]

\* the state of a flush that is suspended at an await: pc names the awaited
\* statement, snapshot the copy being iterated or the row being written
Local(pc, snapshot, todo, iter) ==
    [pc |-> pc, snapshot |-> snapshot, todo |-> todo, iter |-> iter]

\* the flush has returned: _periodic_sync goes on to _cleanup_expired_data,
\* close() to the release of the connection
FlushReturns(task) ==
    {Local(IF task = "periodic" THEN "cleanup" ELSE "closing", << >>, {}, NoIter)}

\* the coroutine ends with an exception: the _periodic_sync task is done,
\* close() raises to its caller
Raised(task) == IF task = "periodic" THEN "dead" ELSE "raised"

\* "for key in copy: for item in live[key]: ... await ...", run from the state
\* (todo, iter) to the next await: the keys of todo are those of the copy not yet
\* begun, iter is the iterator over the live collection of the current key.
\* An iterator raises RuntimeError when the size of its collection has changed;
\* the items of live[k] that are not in wants[k] are passed without an await.
LiveNext(live, wants, todo, iter) ==
    LET wanted(k) == live[k] \cap wants[k]
        unwanted(k) == live[k] \ wanted(k)
        barren == {k \in todo : wanted(k) = {}}
    IN
    IF iter # NoIter /\ Cardinality(live[iter.key]) # iter.used
    THEN {[kind |-> "RuntimeError", item |-> "-", todo |-> {}, iter |-> NoIter]}
    ELSE IF iter # NoIter /\ wanted(iter.key) \ iter.visited # {}
    THEN UNION {{[kind |-> "await", item |-> x, todo |-> todo,
                  iter |-> [iter EXCEPT !.visited = @ \cup {x} \cup S]] :
                     S \in SUBSET (unwanted(iter.key) \ iter.visited)} :
                  x \in wanted(iter.key) \ iter.visited}
    ELSE IF todo = barren
    THEN {[kind |-> "done", item |-> "-", todo |-> {}, iter |-> NoIter]}
    ELSE UNION {UNION {{[kind |-> "await", item |-> x,
                         todo |-> todo \ ({k} \cup P),
                         iter |-> [key |-> k, visited |-> {x} \cup S,
                                   used |-> Cardinality(live[k])]] :
                            P \in SUBSET barren, S \in SUBSET unwanted(k)} :
                         x \in wanted(k)} :
                      k \in todo \ barren}

\* the value that _sync_balances / _sync_to_redis writes for a Balance
balance_row(amount) ==
    IF _storage_backend = "REDIS"
    THEN _encode(amount)
    ELSE [free |-> str(amount.free), locked |-> str(amount.locked)]

\* after the loop over the balances: SQLite awaits the commit, Redis is done
AfterBalances(task) ==
    IF _storage_backend = "REDIS"
    THEN FlushReturns(task)
    ELSE {Local("sync_commit", << >>, {}, NoIter)}

\* _sync_balances from (todo, iter) to its next await: the account types are a
\* copy, "balance.balances.items()" is the live dict of the account type
ResumeBalances(task, todo, iter) ==
    LET live == [a \in DOMAIN _mem_account_balance |-> DOMAIN _mem_account_balance[a]] IN
    UNION {CASE o.kind = "RuntimeError" -> {Local("RuntimeError", << >>, {}, NoIter)}
             [] o.kind = "done" -> AfterBalances(task)
             [] OTHER ->
                  {Local("sync_balances",
                         [key |-> <<o.iter.key, o.item>>,
                          row |-> balance_row(_mem_account_balance[o.iter.key][o.item])],
                         o.todo, o.iter)} :
              o \in LiveNext(live, live, todo, iter)}

EnterBalances(task) == ResumeBalances(task, DOMAIN _mem_account_balance, NoIter)

\* _sync_open_orders from (todo, iter) to its next await: the exchanges are a
\* copy, "for uuid in uuids" iterates the live set of the exchange, and only a
\* uuid that _mem_orders holds is inserted
ResumeOpenOrders(task, todo, iter) ==
    LET wants == [exchange \in DOMAIN _mem_open_orders |-> DOMAIN _mem_orders] IN
    UNION {CASE o.kind = "RuntimeError" -> {Local("RuntimeError", << >>, {}, NoIter)}
             [] o.kind = "done" -> EnterBalances(task)
             [] OTHER ->
                  {Local("sync_open_orders",
                         [key |-> o.item,
                          row |-> [exchange |-> o.iter.key,
                                   symbol |-> _mem_orders[o.item].symbol]],
                         o.todo, o.iter)} :
              o \in LiveNext(_mem_open_orders, wants, todo, iter)}

\* _sync_open_orders awaits its DELETE
EnterOpenOrders(task) == {Local("sync_open_orders_delete", << >>, {}, NoIter)}

\* the loop over _mem_positions.copy() of _sync_positions / _sync_to_redis
EnterPositionsInsert(task) ==
    IF DOMAIN _mem_positions # {}
    THEN {Local("sync_positions", _mem_positions, DOMAIN _mem_positions, NoIter)}
    ELSE IF _storage_backend = "REDIS" THEN EnterBalances(task) ELSE EnterOpenOrders(task)

\* _sync_positions awaits its SELECT
EnterPositionsSelect(task) == {Local("sync_positions_select", << >>, {}, NoIter)}

\* the three index dicts that _sync_to_redis writes as sets, in its order
redis_indexes == <<"exchange_open_orders", "symbol_orders", "symbol_open_orders">>

\* the in-memory index dict behind a Redis set family
mem_index(name) ==
    CASE name = "exchange_open_orders" -> _mem_open_orders
      [] name = "symbol_orders" -> _mem_symbol_orders
      [] name = "symbol_open_orders" -> _mem_symbol_open_orders

\* _sync_to_redis enters the loop over the copy of the i-th index dict and
\* awaits the delete of its first key; an empty dict is passed without an await
RECURSIVE EnterRedisIndex(_, _)
EnterRedisIndex(task, i) ==
    IF i > Len(redis_indexes) THEN EnterPositionsInsert(task)
    ELSE IF DOMAIN mem_index(redis_indexes[i]) = {} THEN EnterRedisIndex(task, i + 1)
    ELSE {Local("redis_delete", [index |-> i, key |-> k, members |-> {}],
                (DOMAIN mem_index(redis_indexes[i])) \ {k}, NoIter) :
             k \in DOMAIN mem_index(redis_indexes[i])}

\* _sync_to_redis goes to the next key of the copy of the i-th index dict
NextRedisKey(task, i, todo) ==
    IF todo = {} THEN EnterRedisIndex(task, i + 1)
    ELSE {Local("redis_delete", [index |-> i, key |-> k, members |-> {}],
                todo \ {k}, NoIter) : k \in todo}

\* after the loop over the algo orders
AfterAlgoOrders(task) ==
    IF _storage_backend = "REDIS" THEN EnterRedisIndex(task, 1) ELSE EnterPositionsSelect(task)

\* the loop over _mem_algo_orders.copy()
EnterAlgoOrders(task) ==
    IF DOMAIN _mem_algo_orders # {}
    THEN {Local("sync_algo_orders", _mem_algo_orders, DOMAIN _mem_algo_orders, NoIter)}
    ELSE AfterAlgoOrders(task)

\* the loop over _mem_orders.copy()
EnterOrders(task) ==
    IF DOMAIN _mem_orders # {}
    THEN {Local("sync_orders", _mem_orders, DOMAIN _mem_orders, NoIter)}
    ELSE EnterAlgoOrders(task)

\* the flush of task is suspended at its next await, or has raised
Suspend(task, local) ==
    /\ sync_pc' = [sync_pc EXCEPT ![task] =
                      IF local.pc = "RuntimeError" THEN Raised(task) ELSE local.pc]
    /\ sync_snapshot' = [sync_snapshot EXCEPT ![task] = local.snapshot]
    /\ sync_todo' = [sync_todo EXCEPT ![task] = local.todo]
    /\ sync_iter' = [sync_iter EXCEPT ![task] = local.iter]

\* what a step of a flush leaves alone
flushFrame ==
    <<memVars, _storage_backend, conn, now, log_warn, first_terminal, pos_closed, history>>

\* the flush of task resumes and runs to one of the states of locals
Resume(task, op, locals) ==
    \E local \in locals :
        /\ Suspend(task, local)
        /\ last' = Did(op, task, IF local.pc = "RuntimeError" THEN "RuntimeError" ELSE "done")

\* every entity that is in memory
AllKeys ==
    {OrderKey(uuid) : uuid \in DOMAIN _mem_orders}
    \cup {AlgoOrderKey(uuid) : uuid \in DOMAIN _mem_algo_orders}
    \cup {PositionKey(symbol) : symbol \in DOMAIN _mem_positions}
    \cup UNION {{BalanceKey(a, asset) : asset \in DOMAIN _mem_account_balance[a]} :
                   a \in DOMAIN _mem_account_balance}

-----------------------------------------------------------------------------
(* _sync_to_sqlite and _sync_to_redis, await by await *)

\* the flush begins: _periodic_sync wakes up, or close() is called; it takes
\* the copy of _mem_orders and runs to its first await. On a released
\* connection the first statement raises.
_sync_orders_copy(task) ==
    /\ sync_pc[task] = IF task = "periodic" THEN "sleep" ELSE "idle"
    /\ IF conn = "closed"
       THEN Resume(task, "sync_copy", {Local("RuntimeError", << >>, {}, NoIter)})
       ELSE Resume(task, "sync_copy", EnterOrders(task))
    /\ clean' = IF clean.on /\ task = clean.task /\ conn = "open"
                THEN [clean EXCEPT !.keys = AllKeys,
                                   !.gone = pos_closed \ DOMAIN _mem_positions]
                ELSE clean
    /\ UNCHANGED <<flushFrame, db, tx>>

\* a loop over the copy of _mem_orders that writes nothing
_sync_orders_execute_unwritten(task) ==
    /\ sync_pc[task] = "sync_orders"
    /\ conn = "open"
    /\ \E uuid \in sync_todo[task] :
          IF sync_todo[task] = {uuid}
          THEN Resume(task, "sync_orders", EnterAlgoOrders(task))
          ELSE Resume(task, "sync_orders",
                      {Local("sync_orders", sync_snapshot[task],
                             sync_todo[task] \ {uuid}, NoIter)})
    /\ UNCHANGED <<flushFrame, clean, db, tx>>

\* a loop over the copy of _mem_orders that takes each written order out of
\* memory
_sync_orders_execute_drains(task) ==
    /\ sync_pc[task] = "sync_orders"
    /\ conn = "open"
    /\ \E uuid \in sync_todo[task] :
          /\ Put("orders", uuid, _encode(sync_snapshot[task][uuid]))
          /\ _mem_orders' = DictDel(_mem_orders, uuid)
          /\ IF sync_todo[task] = {uuid}
             THEN Resume(task, "sync_orders", EnterAlgoOrders(task))
             ELSE Resume(task, "sync_orders",
                         {Local("sync_orders", sync_snapshot[task],
                                sync_todo[task] \ {uuid}, NoIter)})
    /\ UNCHANGED <<_mem_algo_orders, _mem_open_orders, _mem_symbol_open_orders,
                   _mem_symbol_orders, _mem_positions, _mem_account_balance,
                   _storage_backend, conn, now, log_warn, first_terminal, pos_closed,
                   history, clean>>

\* one "await cursor.execute(INSERT OR REPLACE ...)" / "await hset" of the
\* loop over the copy of _mem_orders
_sync_orders_execute(task) ==
    /\ sync_pc[task] = "sync_orders"
    /\ conn = "open"
    /\ \E uuid \in sync_todo[task] :
          /\ Put("orders", uuid, _encode(sync_snapshot[task][uuid]))
          /\ IF sync_todo[task] = {uuid}
             THEN Resume(task, "sync_orders", EnterAlgoOrders(task))
             ELSE Resume(task, "sync_orders",
                         {Local("sync_orders", sync_snapshot[task],
                                sync_todo[task] \ {uuid}, NoIter)})
    /\ UNCHANGED <<flushFrame, clean>>

\* one write of the loop over the copy of _mem_algo_orders
_sync_algo_orders_execute(task) ==
    /\ sync_pc[task] = "sync_algo_orders"
    /\ conn = "open"
    /\ \E uuid \in sync_todo[task] :
          /\ Put("algo_orders", uuid, _encode(sync_snapshot[task][uuid]))
          /\ IF sync_todo[task] = {uuid}
             THEN Resume(task, "sync_algo_orders", AfterAlgoOrders(task))
             ELSE Resume(task, "sync_algo_orders",
                         {Local("sync_algo_orders", sync_snapshot[task],
                                sync_todo[task] \ {uuid}, NoIter)})
    /\ UNCHANGED <<flushFrame, clean>>

\* _sync_positions: the SELECT has returned the symbols the connection sees;
\* the stale ones are computed from the memory of this moment
_sync_positions_select(task) ==
    /\ sync_pc[task] = "sync_positions_select"
    /\ conn = "open"
    /\ LET db_positions == DOMAIN tx.positions
           positions_to_delete == db_positions \ DOMAIN get_all_positions_result("None")
       IN IF positions_to_delete # {}
          THEN Resume(task, "sync_positions_select",
                      {Local("sync_positions_delete", << >>, positions_to_delete, NoIter)})
          ELSE Resume(task, "sync_positions_select", EnterPositionsInsert(task))
    /\ UNCHANGED <<flushFrame, clean, db, tx>>

\* _sync_positions: the executemany(DELETE ...) of the stale symbols
_sync_positions_delete(task) ==
    /\ sync_pc[task] = "sync_positions_delete"
    /\ conn = "open"
    /\ Delete("positions", sync_todo[task])
    /\ Resume(task, "sync_positions_delete", EnterPositionsInsert(task))
    /\ UNCHANGED <<flushFrame, clean>>

\* one write of the loop over the copy of _mem_positions
_sync_positions_execute(task) ==
    /\ sync_pc[task] = "sync_positions"
    /\ conn = "open"
    /\ \E symbol \in sync_todo[task] :
          /\ Put("positions", symbol,
                 [exchange |-> sync_snapshot[task][symbol].exchange,
                  data |-> _encode(sync_snapshot[task][symbol])])
          /\ IF sync_todo[task] # {symbol}
             THEN Resume(task, "sync_positions",
                         {Local("sync_positions", sync_snapshot[task],
                                sync_todo[task] \ {symbol}, NoIter)})
             ELSE IF _storage_backend = "REDIS"
                  THEN Resume(task, "sync_positions", EnterBalances(task))
                  ELSE Resume(task, "sync_positions", EnterOpenOrders(task))
    /\ UNCHANGED <<flushFrame, clean>>

\* _sync_open_orders: the DELETE of the whole table, then the copy of
\* _mem_open_orders
_sync_open_orders_delete(task) ==
    /\ sync_pc[task] = "sync_open_orders_delete"
    /\ conn = "open"
    /\ Delete("open_orders", DOMAIN tx.open_orders)
    /\ Resume(task, "sync_open_orders_delete",
              ResumeOpenOrders(task, DOMAIN _mem_open_orders, NoIter))
    /\ UNCHANGED <<flushFrame, clean>>

\* _sync_open_orders: one INSERT, then on to the next uuid of the live set
_sync_open_orders_execute(task) ==
    /\ sync_pc[task] = "sync_open_orders"
    /\ conn = "open"
    /\ Put("open_orders", sync_snapshot[task].key, sync_snapshot[task].row)
    /\ Resume(task, "sync_open_orders",
              ResumeOpenOrders(task, sync_todo[task], sync_iter[task]))
    /\ UNCHANGED <<flushFrame, clean>>

\* one write of a balance, then on to the next asset of the live dict
_sync_balances_execute(task) ==
    /\ sync_pc[task] = "sync_balances"
    /\ conn = "open"
    /\ Put("balances", sync_snapshot[task].key, sync_snapshot[task].row)
    /\ Resume(task, "sync_balances",
              ResumeBalances(task, sync_todo[task], sync_iter[task]))
    /\ UNCHANGED <<flushFrame, clean>>

\* "await self._db_async.commit()" of _sync_to_sqlite: what the connection
\* has written becomes visible to the reading connection self._db
_sync_to_sqlite_commit(task) ==
    /\ sync_pc[task] = "sync_commit"
    /\ conn = "open"
    /\ db' = tx
    /\ Resume(task, "sync_commit", FlushReturns(task))
    /\ UNCHANGED <<flushFrame, clean, tx>>

\* _sync_to_redis: "await self._r_async.delete(key)" of an index set; the
\* set is written again only if the live set is not empty
_sync_to_redis_delete(task) ==
    /\ sync_pc[task] = "redis_delete"
    /\ conn = "open"
    /\ LET i == sync_snapshot[task].index
           key == sync_snapshot[task].key
           uuids == mem_index(redis_indexes[i])[key]
       IN /\ Delete(redis_indexes[i], {key})
          /\ IF uuids # {}
             THEN Resume(task, "redis_delete",
                         {Local("redis_sadd", [index |-> i, key |-> key, members |-> uuids],
                                sync_todo[task], NoIter)})
             ELSE Resume(task, "redis_delete", NextRedisKey(task, i, sync_todo[task]))
    /\ UNCHANGED <<flushFrame, clean>>

\* _sync_to_redis: "await self._r_async.sadd(key, *uuids)" of an index set
_sync_to_redis_sadd(task) ==
    /\ sync_pc[task] = "redis_sadd"
    /\ conn = "open"
    /\ Put(redis_indexes[sync_snapshot[task].index], sync_snapshot[task].key,
           sync_snapshot[task].members)
    /\ Resume(task, "redis_sadd",
              NextRedisKey(task, sync_snapshot[task].index, sync_todo[task]))
    /\ UNCHANGED <<flushFrame, clean>>

\* the statements at which a flush awaits the backend
BackendAwaits ==
    {"sync_orders", "sync_algo_orders", "sync_positions_select", "sync_positions_delete",
     "sync_positions", "sync_open_orders_delete", "sync_open_orders", "sync_balances",
     "sync_commit", "redis_delete", "redis_sadd"}

\* the awaited backend call raises (the backend is unavailable, or the
\* connection has been released): the exception leaves the flush and its caller
backend_error(task) ==
    /\ sync_pc[task] \in BackendAwaits
    /\ Suspend(task, Local("RuntimeError", << >>, {}, NoIter))
    /\ last' = Did("backend_error", task, "raised")
    /\ UNCHANGED <<flushFrame, clean, db, tx>>

\* a close() that releases the connection while its flush is still under way
close_connection_early ==
    /\ sync_pc["close"] \in BackendAwaits \cup {"closing"}
    /\ conn' = "closed"
    /\ tx' = db
    /\ sync_pc' = [sync_pc EXCEPT !["close"] = "closed"]
    /\ last' = Did("close", "close", "done")
    /\ UNCHANGED <<memVars, _storage_backend, db, sync_snapshot, sync_todo, sync_iter, now,
                   log_warn, first_terminal, pos_closed, clean, history>>

\* close(): "await self._db_async.close(); self._db.close()" / "aclose()";
\* what the connection had not committed is lost
close_connection ==
    /\ sync_pc["close"] = "closing"
    /\ conn' = "closed"
    /\ tx' = db
    /\ sync_pc' = [sync_pc EXCEPT !["close"] = "closed"]
    /\ last' = Did("close", "close", "done")
    /\ UNCHANGED <<memVars, _storage_backend, db, sync_snapshot, sync_todo, sync_iter, now,
                   log_warn, first_terminal, pos_closed, clean, history>>

-----------------------------------------------------------------------------
(* The Reaper *)

\* the orders _cleanup_expired_data collects in expired_orders
expired_orders ==
    {uuid \in DOMAIN _mem_orders : _mem_orders[uuid].timestamp + expired_time < now}

\* the algo orders _cleanup_expired_data collects in expired_algo_orders
expired_algo_orders ==
    {uuid \in DOMAIN _mem_algo_orders :
        _mem_algo_orders[uuid].timestamp + expired_time < now}

\* _cleanup_expired_data without the warning for a non-closed order
_cleanup_expired_data_silent ==
    /\ sync_pc["periodic"] = "cleanup"
    /\ sync_pc' = [sync_pc EXCEPT !["periodic"] = "sleep"]
    /\ _mem_orders' = [u \in (DOMAIN _mem_orders) \ expired_orders |-> _mem_orders[u]]
    /\ _mem_symbol_orders' =
           [s \in DOMAIN _mem_symbol_orders |-> _mem_symbol_orders[s] \ expired_orders]
    /\ _mem_algo_orders' =
           [u \in (DOMAIN _mem_algo_orders) \ expired_algo_orders |-> _mem_algo_orders[u]]
    /\ last' = [op |-> "cleanup", uuid |-> "-", result |-> "done",
                records |-> [u \in expired_orders |-> _mem_orders[u]]]
    /\ clean' = IF clean.on
                THEN [clean EXCEPT !.keys =
                         IF clean.task = "periodic"
                         THEN {}
                         ELSE @ \ ({OrderKey(uuid) : uuid \in expired_orders}
                                   \cup {AlgoOrderKey(uuid) : uuid \in expired_algo_orders}),
                                   !.gone = IF clean.task = "periodic" THEN {} ELSE @]
                ELSE clean
    /\ history' = IF history.on
                  THEN [history EXCEPT !.evicted = @ \cup expired_orders]
                  ELSE history
    /\ UNCHANGED <<_mem_open_orders, _mem_symbol_open_orders, posVars, balanceVars,
                   _storage_backend, conn, db, tx, sync_snapshot, sync_todo, sync_iter,
                   now, first_terminal, log_warn>>

\* _cleanup_expired_data, called by _periodic_sync when its flush has returned;
\* then the task sleeps
_cleanup_expired_data ==
    /\ sync_pc["periodic"] = "cleanup"
    /\ sync_pc' = [sync_pc EXCEPT !["periodic"] = "sleep"]
    /\ log_warn' = log_warn \cup
                      {uuid \in expired_orders : ~order_is_closed(_mem_orders[uuid])}
    /\ _mem_orders' = [u \in (DOMAIN _mem_orders) \ expired_orders |-> _mem_orders[u]]
    /\ _mem_symbol_orders' =
           [s \in DOMAIN _mem_symbol_orders |-> _mem_symbol_orders[s] \ expired_orders]
    /\ _mem_algo_orders' =
           [u \in (DOMAIN _mem_algo_orders) \ expired_algo_orders |-> _mem_algo_orders[u]]
    /\ last' = [op |-> "cleanup", uuid |-> "-", result |-> "done",
                records |-> [u \in expired_orders |-> _mem_orders[u]]]
    /\ clean' = IF clean.on
                THEN [clean EXCEPT !.keys =
                         IF clean.task = "periodic"
                         THEN {}
                         ELSE @ \ ({OrderKey(uuid) : uuid \in expired_orders}
                                   \cup {AlgoOrderKey(uuid) : uuid \in expired_algo_orders}),
                                   !.gone = IF clean.task = "periodic" THEN {} ELSE @]
                ELSE clean
    /\ history' = IF history.on
                  THEN [history EXCEPT !.evicted = @ \cup expired_orders]
                  ELSE history
    /\ UNCHANGED <<_mem_open_orders, _mem_symbol_open_orders, posVars, balanceVars,
                   _storage_backend, conn, db, tx, sync_snapshot, sync_todo, sync_iter,
                   now, first_terminal>>

\* the clock advances; every order event carries the clock's time
Tick ==
    /\ now < MaxNow
    /\ now' = now + 1
    /\ last' = Did("tick", "-", "done")
    /\ UNCHANGED <<memVars, pos_closed, syncVars, log_warn, first_terminal, clean, history>>

-----------------------------------------------------------------------------
(* The cache of orders with the SQLite backend *)

\* the cache after AsyncCache(storage_backend=...) and start(): the stores are
\* empty, the connection is open, the _periodic_sync task is about to run
Constructed(storage_backend) ==
    /\ _mem_orders = << >>
    /\ _mem_algo_orders = << >>
    /\ _mem_open_orders = << >>
    /\ _mem_symbol_open_orders = << >>
    /\ _mem_symbol_orders = << >>
    /\ _mem_positions = << >>
    /\ _mem_account_balance = << >>
    /\ _storage_backend = storage_backend
    /\ conn = "open"
    /\ tx = db
    /\ sync_pc = [task \in Tasks |-> IF task = "periodic" THEN "sleep" ELSE "idle"]
    /\ sync_snapshot = [task \in Tasks |-> << >>]
    /\ sync_todo = [task \in Tasks |-> {}]
    /\ sync_iter = [task \in Tasks |-> NoIter]

\* the history variables before anything has happened
NoHistory ==
    /\ now = 0
    /\ log_warn = {}
    /\ first_terminal = << >>
    /\ pos_closed = {}
    /\ clean = [on |-> FALSE, task |-> "periodic", keys |-> {}, gone |-> {}]
    /\ history = [on |-> FALSE, arrivals |-> << >>, evicted |-> {}]
    /\ last = Did("init", "-", "done")

Init ==
    /\ db = EmptyTables
    /\ Constructed("SQLITE")
    /\ NoHistory

Next ==
    \/ \E u \in Uuids, s \in OrderStatus : _order_initialized(Order(u, s, now))
    \/ \E u \in Uuids, s \in OrderStatus : _order_status_update(Order(u, s, now))
    \/ \E u \in Uuids : get_order(u)
    \/ _sync_orders_copy("periodic")
    \/ _sync_orders_execute("periodic")
    \/ _sync_positions_select("periodic")
    \/ _sync_open_orders_delete("periodic")
    \/ _sync_open_orders_execute("periodic")
    \/ _sync_to_sqlite_commit("periodic")
    \/ _cleanup_expired_data
    \/ Tick

Spec == Init /\ [][Next]_vars

-----------------------------------------------------------------------------
(* Reads of the backend *)

\* _get_all_positions_from_sqlite / _get_all_positions_from_redis: the rows of
\* the exchange, decoded; SQLite drops a position without a side
_get_all_positions_from_db(exchange_id) ==
    LET rows == {symbol \in DOMAIN db.positions : db.positions[symbol].exchange = exchange_id}
        position(symbol) == _decode(db.positions[symbol].data, "Position")
    IN [symbol \in {x \in rows : _storage_backend = "REDIS" \/ position(x).side # "FLAT"} |->
           position(symbol)]

\* _get_balance_from_sqlite / _get_balance_from_redis, as asset -> Balance
_get_all_balances_from_db(account_type) ==
    LET assets == {k[2] : k \in {x \in DOMAIN db.balances : x[1] = account_type}} IN
    [asset \in assets |->
        IF _storage_backend = "REDIS"
        THEN _decode(db.balances[<<account_type, asset>>], "Balance")
        ELSE Balance(asset, Decimal(db.balances[<<account_type, asset>>].free),
                     Decimal(db.balances[<<account_type, asset>>].locked))]

\* the entity named key, as memory holds it
InMemory(key) ==
    CASE key[1] = "order" -> _mem_orders[key[2]]
      [] key[1] = "algo_order" -> _mem_algo_orders[key[2]]
      [] key[1] = "position" -> _mem_positions[key[2]]
      [] key[1] = "balance" -> _mem_account_balance[key[2]][key[3]]

\* the backend holds a copy of the entity named key that equals value
BackendHolds(key, value) ==
    CASE key[1] = "order" ->
            key[2] \in DOMAIN db.orders /\ _decode(db.orders[key[2]], "Order") = value
      [] key[1] = "algo_order" ->
            /\ key[2] \in DOMAIN db.algo_orders
            /\ _decode(db.algo_orders[key[2]], "AlgoOrder") = value
      [] key[1] = "position" ->
            /\ key[2] \in DOMAIN db.positions
            /\ _decode(db.positions[key[2]].data, "Position") = value
      [] key[1] = "balance" ->
            /\ key[3] \in DOMAIN _get_all_balances_from_db(key[2])
            /\ _get_all_balances_from_db(key[2])[key[3]] = value

\* the backend holds some copy of the entity named key
BackendHas(key) ==
    CASE key[1] = "order" -> key[2] \in DOMAIN db.orders
      [] key[1] = "algo_order" -> key[2] \in DOMAIN db.algo_orders
      [] key[1] = "position" -> key[2] \in DOMAIN db.positions
      [] key[1] = "balance" -> key[3] \in DOMAIN _get_all_balances_from_db(key[2])

-----------------------------------------------------------------------------
(* The flush of the four stores, and a restart on the same backend *)

\* the process ends when a cycle's flush has returned, and a fresh AsyncCache
\* is constructed and started on the same backend
restart ==
    /\ sync_pc["periodic"] = "cleanup"
    /\ _mem_orders' = << >>
    /\ _mem_algo_orders' = << >>
    /\ _mem_open_orders' = << >>
    /\ _mem_symbol_open_orders' = << >>
    /\ _mem_symbol_orders' = << >>
    /\ _mem_positions' = << >>
    /\ _mem_account_balance' = << >>
    /\ conn' = "open"
    /\ tx' = db
    /\ sync_pc' = [task \in Tasks |-> IF task = "periodic" THEN "sleep" ELSE "idle"]
    /\ sync_snapshot' = [task \in Tasks |-> << >>]
    /\ sync_todo' = [task \in Tasks |-> {}]
    /\ sync_iter' = [task \in Tasks |-> NoIter]
    /\ clean' = [clean EXCEPT !.keys = {}, !.gone = {}]
    /\ last' = [op |-> "restart", uuid |-> "-", result |-> "done",
                records |-> [key \in clean.keys |-> InMemory(key)]]
    /\ UNCHANGED <<_storage_backend, db, now, log_warn, first_terminal, pos_closed, history>>

\* the cache was constructed with either backend; the history of writes is kept
InitFlush ==
    /\ db = EmptyTables
    /\ \E storage_backend \in StorageBackend : Constructed(storage_backend)
    /\ now = 0
    /\ log_warn = {}
    /\ first_terminal = << >>
    /\ pos_closed = {}
    /\ clean = [on |-> TRUE, task |-> "periodic", keys |-> {}, gone |-> {}]
    /\ history = [on |-> FALSE, arrivals |-> << >>, evicted |-> {}]
    /\ last = Did("init", "-", "done")

\* the events of the scenario: a pending order, a running algo order, a long
\* position of one unit on one symbol and its closing, deltas of one asset
FlushStatuses == {"PENDING"}
FlushAlgoStatuses == {"RUNNING"}
FlushPositions ==
    {position \in Positions :
        /\ position.symbol = "BTCUSDT.BINANCE"
        /\ position.side # "SHORT"
        /\ position.amount <= 1}

NextFlush ==
    \/ \E u \in Uuids, s \in FlushStatuses : _order_initialized(Order(u, s, now))
    \/ \E u \in AlgoUuids, s \in FlushAlgoStatuses :
          _order_status_update(AlgoOrder(u, s, now))
    \/ \E position \in FlushPositions : _apply_position(position)
    \/ \E account_type \in AccountTypes, asset \in Assets :
          /\ \A a \in DOMAIN account_balance(account_type) :
                account_balance(account_type)[a].free < MaxFree
          /\ _apply_balance(account_type, <<Balance(asset, 1, 0)>>)
    \/ \E task \in {"periodic"} :
          \/ _sync_orders_copy(task)
          \/ _sync_orders_execute(task)
          \/ _sync_algo_orders_execute(task)
          \/ _sync_positions_select(task)
          \/ _sync_positions_delete(task)
          \/ _sync_positions_execute(task)
          \/ _sync_open_orders_delete(task)
          \/ _sync_open_orders_execute(task)
          \/ _sync_balances_execute(task)
          \/ _sync_to_sqlite_commit(task)
          \/ _sync_to_redis_delete(task)
          \/ _sync_to_redis_sadd(task)
          \/ backend_error(task)
    \/ _cleanup_expired_data
    \/ restart

SpecFlush == InitFlush /\ [][NextFlush]_vars

-----------------------------------------------------------------------------
(* Order events interleaved with sync cycles, and their sequential application *)

\* the statuses of the order events of the smaller scenarios
SomeStatuses == {"ACCEPTED", "FILLED"}

\* the in-memory stores of orders, as one value
Stores ==
    [_mem_orders |-> _mem_orders,
     _mem_algo_orders |-> _mem_algo_orders,
     _mem_open_orders |-> _mem_open_orders,
     _mem_symbol_open_orders |-> _mem_symbol_open_orders,
     _mem_symbol_orders |-> _mem_symbol_orders]

EmptyStores ==
    [_mem_orders |-> << >>,
     _mem_algo_orders |-> << >>,
     _mem_open_orders |-> << >>,
     _mem_symbol_open_orders |-> << >>,
     _mem_symbol_orders |-> << >>]

\* what one call of _order_initialized / _order_status_update does to the
\* stores when nothing else runs
Applied(stores, arrival) ==
    LET order == arrival.order
        passes ==
            \/ order.uuid \notin DOMAIN stores._mem_orders
            \/ /\ stores._mem_orders[order.uuid].status \in DOMAIN STATUS_TRANSITIONS
               /\ order.status \in STATUS_TRANSITIONS[stores._mem_orders[order.uuid].status]
    IN
    IF isinstance_AlgoOrder(order)
    THEN [stores EXCEPT !._mem_algo_orders = DictSet(@, order.uuid, order)]
    ELSE IF ~passes THEN stores
    ELSE IF arrival.op = "order_initialized"
    THEN [stores EXCEPT
             !._mem_orders = DictSet(@, order.uuid, order),
             !._mem_open_orders = DefaultAdd(@, order.exchange, order.uuid),
             !._mem_symbol_orders = DefaultAdd(@, order.symbol, order.uuid),
             !._mem_symbol_open_orders = DefaultAdd(@, order.symbol, order.uuid)]
    ELSE IF order_is_closed(order)
    THEN [stores EXCEPT
             !._mem_orders = DictSet(@, order.uuid, order),
             !._mem_open_orders = DefaultDiscard(@, order.exchange, order.uuid),
             !._mem_symbol_open_orders = DefaultDiscard(@, order.symbol, order.uuid)]
    ELSE [stores EXCEPT !._mem_orders = DictSet(@, order.uuid, order)]

\* the stores after the calls of arrivals, one after the other
RECURSIVE Replay(_)
Replay(arrivals) ==
    IF arrivals = << >>
    THEN EmptyStores
    ELSE Applied(Replay(SubSeq(arrivals, 1, Len(arrivals) - 1)), arrivals[Len(arrivals)])

InitConcurrent ==
    /\ db = EmptyTables
    /\ \E storage_backend \in StorageBackend : Constructed(storage_backend)
    /\ now = 0
    /\ log_warn = {}
    /\ first_terminal = << >>
    /\ pos_closed = {}
    /\ clean = [on |-> FALSE, task |-> "periodic", keys |-> {}, gone |-> {}]
    /\ history = [on |-> TRUE, arrivals |-> << >>, evicted |-> {}]
    /\ last = Did("init", "-", "done")

NextConcurrent ==
    \/ \E u \in ManyUuids :
          /\ Len(history.arrivals) < MaxArrivals
          /\ _order_initialized(Order(u, "PENDING", now))
    \/ \E u \in ManyUuids, s \in SomeStatuses :
          /\ Len(history.arrivals) < MaxArrivals
          /\ _order_status_update(Order(u, s, now))
    \/ \E task \in {"periodic"} :
          \/ _sync_orders_copy(task)
          \/ _sync_orders_execute(task)
          \/ _sync_positions_select(task)
          \/ _sync_open_orders_delete(task)
          \/ _sync_open_orders_execute(task)
          \/ _sync_to_sqlite_commit(task)
          \/ _sync_to_redis_delete(task)
          \/ _sync_to_redis_sadd(task)
    \/ _cleanup_expired_data
    \/ Tick

SpecConcurrent == InitConcurrent /\ [][NextConcurrent]_vars

-----------------------------------------------------------------------------
(* Shutdown: close() while the handlers and the periodic task go on *)

\* the history of writes is kept against the flush of close()
InitClose ==
    /\ db = EmptyTables
    /\ \E storage_backend \in StorageBackend : Constructed(storage_backend)
    /\ now = 0
    /\ log_warn = {}
    /\ first_terminal = << >>
    /\ pos_closed = {}
    /\ clean = [on |-> TRUE, task |-> "close", keys |-> {}, gone |-> {}]
    /\ history = [on |-> FALSE, arrivals |-> << >>, evicted |-> {}]
    /\ last = Did("init", "-", "done")

NextClose ==
    \/ \E u \in Uuids : _order_initialized(Order(u, "PENDING", now))
    \/ \E u \in Uuids : _order_status_update(Order(u, "FILLED", now))
    \/ \E account_type \in AccountTypes, asset \in Assets :
          /\ \A a \in DOMAIN account_balance(account_type) :
                account_balance(account_type)[a].free < MaxFree
          /\ _apply_balance(account_type, <<Balance(asset, 1, 0)>>)
    \/ \E task \in Tasks :
          \/ _sync_orders_copy(task)
          \/ _sync_orders_execute(task)
          \/ _sync_positions_select(task)
          \/ _sync_open_orders_delete(task)
          \/ _sync_open_orders_execute(task)
          \/ _sync_balances_execute(task)
          \/ _sync_to_sqlite_commit(task)
          \/ _sync_to_redis_delete(task)
          \/ _sync_to_redis_sadd(task)
          \/ backend_error(task)
    \/ _cleanup_expired_data
    \/ close_connection

SpecClose == InitClose /\ [][NextClose]_vars

-----------------------------------------------------------------------------
(* The periodic task with a backend that can fail *)

\* the cache was constructed with either backend
InitBackends ==
    /\ db = EmptyTables
    /\ \E storage_backend \in StorageBackend : Constructed(storage_backend)
    /\ NoHistory

\* a step of the _periodic_sync task: the event loop resumes the coroutine
\* when what it awaits has completed
PeriodicRuns ==
    \/ _sync_orders_copy("periodic")
    \/ _sync_orders_execute("periodic")
    \/ _sync_positions_select("periodic")
    \/ _sync_open_orders_delete("periodic")
    \/ _sync_open_orders_execute("periodic")
    \/ _sync_to_sqlite_commit("periodic")
    \/ _sync_to_redis_delete("periodic")
    \/ _sync_to_redis_sadd("periodic")
    \/ _cleanup_expired_data

NextUnreliable ==
    \/ \E u \in Uuids, s \in SomeStatuses : _order_initialized(Order(u, s, now))
    \/ \E u \in Uuids, s \in SomeStatuses : _order_status_update(Order(u, s, now))
    \/ PeriodicRuns
    \/ backend_error("periodic")
    \/ Tick

\* the event loop keeps running the periodic task as long as it has a step
SpecUnreliable == InitBackends /\ [][NextUnreliable]_vars /\ WF_vars(PeriodicRuns)

-----------------------------------------------------------------------------
(* The read operations between the handlers *)

NextReads ==
    \/ \E u \in Uuids, s \in SomeStatuses : _order_initialized(Order(u, s, now))
    \/ \E u \in Uuids, s \in SomeStatuses : _order_status_update(Order(u, s, now))
    \/ \E position \in FlushPositions : _apply_position(position)
    \/ \E account_type \in AccountTypes, asset \in Assets :
          /\ \A a \in DOMAIN account_balance(account_type) :
                account_balance(account_type)[a].free < MaxFree
          /\ _apply_balance(account_type, <<Balance(asset, 1, 0)>>)
    \/ \E u \in Uuids : get_order(u)
    \/ \E symbol \in Symbols : get_position(symbol)
    \/ \E exchange \in ExchangeType \cup {"None"} : get_all_positions(exchange)
    \/ \E account_type \in AccountTypes : get_balance(account_type)
    \/ \E symbol \in Symbols \cup {"None"}, exchange \in ExchangeType \cup {"None"} :
          get_open_orders(symbol, exchange)
    \/ \E symbol \in Symbols : get_symbol_orders(symbol)

SpecReads == Init /\ [][NextReads]_vars

-----------------------------------------------------------------------------
(* Read-through from a backend that holds rows the cache cannot decode *)

\* the backend was written before the cache started: the row of an order, of
\* an algo order, or of both holds bytes that are no JSON of the struct
InitUndecodable ==
    /\ \E orders \in SUBSET Uuids, algo_orders \in SUBSET AlgoUuids :
          /\ orders \cup algo_orders # {}
          /\ db = [EmptyTables EXCEPT !.orders = [uuid \in orders |-> Garbage],
                                      !.algo_orders = [uuid \in algo_orders |-> Garbage]]
    /\ \E storage_backend \in StorageBackend : Constructed(storage_backend)
    /\ NoHistory

NextUndecodable ==
    \/ \E u \in Uuids, s \in SomeStatuses : _order_initialized(Order(u, s, now))
    \/ \E u \in AlgoUuids, s \in FlushAlgoStatuses :
          _order_status_update(AlgoOrder(u, s, now))
    \/ \E u \in Uuids \cup AlgoUuids : get_order(u)
    \/ \E task \in {"periodic"} :
          \/ _sync_orders_copy(task)
          \/ _sync_orders_execute(task)
          \/ _sync_algo_orders_execute(task)
          \/ _sync_positions_select(task)
          \/ _sync_open_orders_delete(task)
          \/ _sync_open_orders_execute(task)
          \/ _sync_to_sqlite_commit(task)
          \/ _sync_to_redis_delete(task)
          \/ _sync_to_redis_sadd(task)
    \/ _cleanup_expired_data

SpecUndecodable == InitUndecodable /\ [][NextUndecodable]_vars

-----------------------------------------------------------------------------
(* Algo orders next to orders *)

InitAlgo ==
    /\ db = EmptyTables
    /\ Constructed("SQLITE")
    /\ now = 0
    /\ log_warn = {}
    /\ first_terminal = << >>
    /\ pos_closed = {}
    /\ clean = [on |-> FALSE, task |-> "periodic", keys |-> {}, gone |-> {}]
    /\ history = [on |-> TRUE, arrivals |-> << >>, evicted |-> {}]
    /\ last = Did("init", "-", "done")

NextAlgo ==
    \/ /\ Len(history.arrivals) < MaxArrivals
       /\ \/ \E u \in AlgoUuids, s \in AlgoOrderStatus :
                _order_initialized(AlgoOrder(u, s, now))
          \/ \E u \in AlgoUuids, s \in AlgoOrderStatus :
                _order_status_update(AlgoOrder(u, s, now))
          \/ \E u \in Uuids, s \in SomeStatuses : _order_initialized(Order(u, s, now))
          \/ \E u \in Uuids, s \in SomeStatuses : _order_status_update(Order(u, s, now))
    \/ Tick

SpecAlgo == InitAlgo /\ [][NextAlgo]_vars

-----------------------------------------------------------------------------
(* Read-through after restarts *)

NextReadThrough ==
    \/ \E u \in Uuids, s \in SomeStatuses : _order_initialized(Order(u, s, now))
    \/ \E u \in Uuids, s \in SomeStatuses : _order_status_update(Order(u, s, now))
    \/ \E u \in AlgoUuids, s \in AlgoOrderStatus : _order_status_update(AlgoOrder(u, s, now))
    \/ \E u \in Uuids \cup AlgoUuids : get_order(u)
    \/ \E task \in {"periodic"} :
          \/ _sync_orders_copy(task)
          \/ _sync_orders_execute(task)
          \/ _sync_algo_orders_execute(task)
          \/ _sync_positions_select(task)
          \/ _sync_open_orders_delete(task)
          \/ _sync_open_orders_execute(task)
          \/ _sync_to_sqlite_commit(task)
          \/ _sync_to_redis_delete(task)
          \/ _sync_to_redis_sadd(task)
    \/ _cleanup_expired_data
    \/ restart

SpecReadThrough == InitFlush /\ [][NextReadThrough]_vars

-----------------------------------------------------------------------------
(* The cache of positions *)

NextPositions ==
    \/ \E position \in Positions : _apply_position(position)
    \/ \E symbol \in Symbols : get_position(symbol)
    \/ \E exchange \in ExchangeType \cup {"None"} : get_all_positions(exchange)

SpecPositions == Init /\ [][NextPositions]_vars

-----------------------------------------------------------------------------
(* Properties *)

HandlerOps == {"order_initialized", "order_status_update"}

IsEdge(previous, next) ==
    previous \in DOMAIN STATUS_TRANSITIONS /\ next \in STATUS_TRANSITIONS[previous]

RECURSIVE ReachableVia(_)
ReachableVia(S) ==
    LET T == S \cup {n \in OrderStatus : \E p \in S : IsEdge(p, n)} IN
    IF T = S THEN S ELSE ReachableVia(T)

ReachableFromInitialized == ReachableVia({"INITIALIZED"})

\* u is a member of d[k] and of no other set of the index d
InOnly(d, k, u) == k \in DOMAIN d /\ \A x \in DOMAIN d : (u \in d[x]) <=> (x = k)

\* u is a member of no set of the index d
InNone(d, u) == \A x \in DOMAIN d : u \notin d[x]

\* C1: after every _order_initialized / _order_status_update call on a plain
\* uuid the stored status is reachable from INITIALIZED through edges of
\* STATUS_TRANSITIONS, and a call whose (stored status, new status) pair is no
\* edge leaves the stored status unchanged.
C1_ReachableFromInitialized ==
    [][\A u \in Uuids, s \in OrderStatus :
          LET order == Order(u, s, now) IN
          (_order_initialized(order) \/ _order_status_update(order)) =>
              /\ _mem_orders'[u].status \in ReachableFromInitialized
              /\ (u \in DOMAIN _mem_orders /\ ~IsEdge(_mem_orders[u].status, s)) =>
                     _mem_orders'[u].status = _mem_orders[u].status]_vars

\* C2: once a uuid has been stored with a terminal status, the cache never
\* holds that uuid with a different status.
C2_TerminalStatusIsFinal ==
    \A u \in DOMAIN first_terminal :
        u \in DOMAIN _mem_orders => _mem_orders[u].status = first_terminal[u]

\* C3: a call of _order_initialized or _order_status_update with a plain order
\* applies the update or drops it; it never raises.
C3_HandlersNeverRaise ==
    last.op \in HandlerOps => last.result \in {"inserted", "replaced", "dropped"}

\* C4: a call of _order_initialized or _order_status_update that the guard
\* rejects leaves _mem_orders and the three indices unchanged.
C4_RejectedLeavesStoreUntouched ==
    [][(last'.op \in HandlerOps /\ last'.result = "dropped") =>
          UNCHANGED orderVars]_vars

C4_Witness ==
    /\ last.op = "order_status_update"
    /\ last.result = "dropped"
    /\ last.uuid \in DOMAIN _mem_orders
    /\ last.uuid \in DefaultGet(_mem_symbol_orders, _mem_orders[last.uuid].symbol)

\* C5: every plain order in _mem_orders that is not closed is in the open index
\* of its exchange and in the open index of its symbol, and every plain order
\* in _mem_orders is in the all-orders index of its symbol.
C5_OrdersAreIndexed ==
    \A u \in DOMAIN _mem_orders :
        LET order == _mem_orders[u] IN
        /\ ~order_is_closed(order) =>
               /\ u \in DefaultGet(_mem_open_orders, order.exchange)
               /\ u \in DefaultGet(_mem_symbol_open_orders, order.symbol)
        /\ u \in DefaultGet(_mem_symbol_orders, order.symbol)

C7_ClosedLeavesOpenSetsOnly ==
    [][(/\ last'.op = "order_status_update"
        /\ last'.result = "replaced"
        /\ ~order_is_closed(_mem_orders[last'.uuid])
        /\ order_is_closed(_mem_orders'[last'.uuid])) =>
          LET order == _mem_orders'[last'.uuid] IN
          /\ order.uuid \notin DefaultGet(_mem_open_orders', order.exchange)
          /\ order.uuid \notin DefaultGet(_mem_symbol_open_orders', order.symbol)
          /\ order.uuid \in DefaultGet(_mem_symbol_orders', order.symbol)]_vars

\* C8: after _cleanup_expired_data, an evicted uuid is in _mem_orders no more
\* and in no set of the three indices.
C8_EvictedLeavesEveryIndex ==
    last.op = "cleanup" =>
        \A u \in DOMAIN last.records :
            /\ u \notin DOMAIN _mem_orders
            /\ InNone(_mem_open_orders, u)
            /\ InNone(_mem_symbol_open_orders, u)
            /\ InNone(_mem_symbol_orders, u)

\* C9 as stated: after the flush and _cleanup_expired_data of a cycle, an
\* evicted order whose status was still ACCEPTED is not found by get_order,
\* and its eviction was logged.
C9_EvictedAbsentFromGetOrder ==
    last.op = "cleanup" =>
        \A u \in DOMAIN last.records :
            last.records[u].status = "ACCEPTED" =>
                _get_order_from_sqlite(u) = Nothing /\ u \in log_warn

\* C9 as amended: after _cleanup_expired_data no order of _mem_orders is older
\* than now - expired_time, every evicted order is absent from _mem_orders, and
\* the eviction of a non-closed one (ACCEPTED among them) was logged.
C9_EvictedAbsentFromMemory ==
    last.op = "cleanup" =>
        /\ \A u \in DOMAIN _mem_orders : ~(_mem_orders[u].timestamp + expired_time < now)
        /\ \A u \in DOMAIN last.records :
              /\ last.records[u].timestamp + expired_time < now
              /\ u \notin DOMAIN _mem_orders
              /\ ~order_is_closed(last.records[u]) => u \in log_warn

C9_Witness ==
    /\ last.op = "cleanup"
    /\ \E u \in DOMAIN last.records :
          /\ last.records[u].status = "ACCEPTED"
          /\ u \notin DOMAIN _mem_orders
          /\ u \in DOMAIN db_orders
          /\ _decode(db_orders[u], "Order").status = "ACCEPTED"

\* C10: every position in _mem_positions is open; after _apply_position with a
\* closed position the symbol is returned by neither get_all_positions nor
\* get_position, and after _apply_position with an open position it is
\* returned by both.
C10_StoredPositionsAreOpen ==
    /\ \A s \in DOMAIN _mem_positions : position_is_opened(_mem_positions[s])
    /\ (last.op = "apply_position" /\ last.result \in {"removed", "absent"}) =>
           /\ last.uuid \notin DOMAIN get_all_positions_result("None")
           /\ get_position_result(last.uuid) = Nothing
    /\ (last.op = "apply_position" /\ last.result = "stored") =>
           /\ last.uuid \in DOMAIN get_all_positions_result("None")
           /\ get_position_result(last.uuid) # Nothing

C10_Witness ==
    /\ last.op = "apply_position"
    /\ last.result = "stored"
    /\ last.uuid \in pos_closed
    /\ last.uuid \in DOMAIN get_all_positions_result("None")

\* C11: under fairness, every backend error that fails a flush of the periodic
\* task is eventually followed by another flush attempt and by an invocation
\* of _cleanup_expired_data.
C11_FailedCycleIsFollowed ==
    /\ (last.op = "backend_error" /\ last.uuid = "periodic") ~> (last.op = "sync_copy")
    /\ (last.op = "backend_error" /\ last.uuid = "periodic") ~> (last.op = "cleanup")

\* C12: when a flush of the periodic task has returned without an exception,
\* the backend holds, for every order, algo order, position and balance entry
\* that is in memory and was not written to since the cycle began, a copy
\* equal to the in-memory one.
C12_CompletedCycleHasPersisted ==
    sync_pc["periodic"] = "cleanup" =>
        \A key \in clean.keys : key \in AllKeys /\ BackendHolds(key, InMemory(key))

C12_Witness ==
    /\ sync_pc["periodic"] = "cleanup"
    /\ {key[1] : key \in clean.keys} = {"order", "position", "balance"}
    /\ BackendHolds(OrderKey("o1"), InMemory(OrderKey("o1")))
    /\ \E key \in AllKeys \ clean.keys : key[1] = "algo_order"

\* C13: a fresh cache constructed on the same backend after a completed cycle
\* returns, from get_order, get_position and get_balance, records equal to the
\* ones the cycle persisted.
C13_RestartReturnsEquivalent ==
    last.op = "restart" =>
        \A key \in DOMAIN last.records :
            CASE key[1] \in {"order", "algo_order"} ->
                    get_order_result(key[2]) = last.records[key]
              [] key[1] = "position" ->
                    get_position_result(key[2]) = last.records[key]
              [] key[1] = "balance" ->
                    /\ key[3] \in DOMAIN account_balance(key[2])
                    /\ account_balance(key[2])[key[3]] = last.records[key]

\* C14 (as stated): whatever the interleaving of order events and sync cycles,
\* the in-memory stores equal the sequential application of the events in
\* arrival order.
C14_MemoryIsSequentialReplay ==
    Stores = Replay(history.arrivals)

\* C14 (amended): as long as the Reaper that ends a cycle has evicted no order,
\* the in-memory stores equal the sequential application of the events in
\* arrival order: the flush itself never modifies memory.
C14_MemoryIsReplayUntilEviction ==
    history.evicted = {} => Stores = Replay(history.arrivals)

C14_Witness ==
    /\ history.evicted = {}
    /\ Len(history.arrivals) = MaxArrivals
    /\ {history.arrivals[i].order.uuid : i \in DOMAIN history.arrivals} = ManyUuids
    /\ last.op = "cleanup"
    /\ Stores = Replay(history.arrivals)
    /\ _mem_orders # << >>

C16_CloseReturnsAndReleases ==
    sync_pc["close"] \in {"raised", "closed"} =>
        sync_pc["close"] = "closed" /\ conn = "closed"

\* C17: get_open_orders raises a usage error exactly when it is not given
\* exactly one of symbol and exchange; given exactly one, it returns the open
\* order ids of that symbol or exchange.
C17_ExactlyOneArgument ==
    last.op = "get_open_orders" =>
        LET given == {x \in {last.uuid, last.exchange} : x # "None"} IN
        IF Cardinality(given) = 1
        THEN last.result = "done"
        ELSE last.result = "raised"

ReadOps ==
    {"get_position", "get_balance", "get_all_positions", "get_open_orders",
     "get_symbol_orders"}

\* C18: a step of get_position, get_balance, get_all_positions, get_open_orders
\* or get_symbol_orders, or of get_order on a hit, leaves every in-memory
\* collection and index as it was, key sets included.
C18_ReadsArePure ==
    [][(\/ last'.op \in ReadOps
        \/ last'.op = "get_order" /\ last'.result = "hit")
       => UNCHANGED memVars]_vars

\* C19: a get_order step on a memory miss whose backend row does not decode
\* returns not-found, raises nothing and leaves memory unchanged.
C19_UndecodableIsMissing ==
    [][LET uuid == last'.uuid IN
       (/\ last'.op = "get_order"
        /\ uuid \notin DOMAIN mem_dict(uuid)
        /\ conn = "open"
        /\ uuid \in DOMAIN table_of(uuid)
        /\ _decode(table_of(uuid)[uuid], obj_type_of(uuid)) = DecodeError)
       => (last'.result = "none" /\ UNCHANGED memVars)]_vars

\* C20: every _order_initialized / _order_status_update call with an AlgoOrder
\* makes that order the record of its uuid in _mem_algo_orders, whatever the
\* record was before, and leaves _mem_orders and the three indices as they were.
C20_AlgoOrdersBypassGuard ==
    [][LET arrival == history'.arrivals[Len(history'.arrivals)] IN
       (/\ Len(history'.arrivals) = Len(history.arrivals) + 1
        /\ isinstance_AlgoOrder(arrival.order))
       => /\ arrival.order.uuid \in DOMAIN _mem_algo_orders'
          /\ _mem_algo_orders'[arrival.order.uuid] = arrival.order
          /\ UNCHANGED orderVars]_vars

C20_Witness ==
    /\ Len(history.arrivals) = 3
    /\ history.arrivals[1].order.status = "FILLED"
    /\ isinstance_AlgoOrder(history.arrivals[2].order)
    /\ history.arrivals[2].order.status = "FINISHED"
    /\ isinstance_AlgoOrder(history.arrivals[3].order)
    /\ history.arrivals[3].order.status = "RUNNING"
    /\ _mem_algo_orders["ALGO-a1"] = history.arrivals[3].order
    /\ "o1" \in DOMAIN _mem_orders

\* C21: no commit makes durable a cycle that is partially written: when the
\* committed tables of SQLite change, no flush is suspended between the DELETE
\* of the open-orders table and its re-inserts.
C21_CommitsWholeCycles ==
    [][(_storage_backend = "SQLITE" /\ db' # db)
       => \A task \in Tasks : sync_pc'[task] # "sync_open_orders"]_vars

\* C22: when a flush of the periodic task has returned without an exception,
\* the backend holds no position of a symbol whose position was closed before
\* the cycle began and has not been applied since: the read of positions by
\* exchange returns none for it.
C22_ClosedPositionsLeaveBackend ==
    sync_pc["periodic"] = "cleanup" =>
        \A symbol \in clean.gone, exchange \in ExchangeType :
            symbol \notin DOMAIN _get_all_positions_from_db(exchange)

\* C23: a get_order step returns the in-memory record when the id is in
\* memory, whatever the backend holds, and changes nothing; on a miss it
\* returns the record the backend holds and stores it in the memory map chosen
\* by the id's prefix, and nothing else; when neither holds the id it returns
\* not-found and changes nothing.
C23_GetOrderReadsThrough ==
    [][last'.op = "get_order" =>
          LET uuid == last'.uuid IN
          IF uuid \in DOMAIN mem_dict(uuid)
          THEN /\ last'.result = "hit"
               /\ last'.records = <<mem_dict(uuid)[uuid]>>
               /\ UNCHANGED memVars
          ELSE IF uuid \in DOMAIN table_of(uuid)
          THEN LET persisted == _decode(table_of(uuid)[uuid], obj_type_of(uuid)) IN
               /\ last'.result = "loaded"
               /\ last'.records = <<persisted>>
               /\ IF startswith_ALGO(uuid)
                  THEN /\ _mem_algo_orders' = DictSet(_mem_algo_orders, uuid, persisted)
                       /\ UNCHANGED _mem_orders
                  ELSE /\ _mem_orders' = DictSet(_mem_orders, uuid, persisted)
                       /\ UNCHANGED _mem_algo_orders
               /\ UNCHANGED <<_mem_open_orders, _mem_symbol_open_orders, _mem_symbol_orders,
                              _mem_positions, _mem_account_balance>>
          ELSE /\ last'.result = "none"
               /\ UNCHANGED memVars]_vars

C23_Witness ==
    /\ last.op = "get_order"
    /\ last.result = "loaded"
    /\ startswith_ALGO(last.uuid)
    /\ _mem_algo_orders[last.uuid] = last.records[1]
    /\ "o1" \notin DOMAIN _mem_orders
    /\ "o1" \in DOMAIN db.orders

\* C24: when _cleanup_expired_data has evicted an order, the backend holds a
\* row of it that decodes to the record that was removed from memory.
C24_EvictedWasPersisted ==
    last.op = "cleanup" =>
        \A u \in DOMAIN last.records :
            /\ u \in DOMAIN db.orders
            /\ _decode(db.orders[u], "Order") = last.records[u]


\* C25: every uuid in a set of the per-exchange open index or of the
\* per-symbol open index is the uuid of a plain order that _mem_orders holds
\* with a status that is not closed.
C25_OpenIndexRefersToOpenOrders ==
    \A index \in {_mem_open_orders, _mem_symbol_open_orders} :
        \A k \in DOMAIN index : \A uuid \in index[k] :
            /\ ~startswith_ALGO(uuid)
            /\ uuid \in DOMAIN _mem_orders
            /\ ~order_is_closed(_mem_orders[uuid])


\* C26: every plain order that _mem_orders holds with a non-terminal status
\* can still be closed: some _order_status_update of it is accepted by
\* _check_status_transition, and a terminal status is reachable from the
\* stored one through edges the guard accepts.
C26_StoredOrderCanBeClosed ==
    \A uuid \in DOMAIN _mem_orders :
        ~order_is_closed(_mem_orders[uuid]) =>
            /\ \E status \in OrderStatus :
                   _check_status_transition(Order(uuid, status, now)) = "ok"
            /\ ReachableVia({_mem_orders[uuid].status}) \cap TerminalStatus # {}


\* C27: right after the commit of _sync_to_sqlite, every uuid of the
\* persisted open-orders table has a row in the persisted orders table whose
\* status is not closed, and every persisted order row with a non-closed
\* status whose uuid is still in _mem_orders has its uuid in the persisted
\* open-orders table.
C27_CommittedTablesAgree ==
    (last.op = "sync_commit" /\ _storage_backend = "SQLITE") =>
        /\ \A uuid \in DOMAIN db.open_orders :
               /\ uuid \in DOMAIN db.orders
               /\ ~order_is_closed(_decode(db.orders[uuid], "Order"))
        /\ \A uuid \in DOMAIN db.orders :
               (/\ ~order_is_closed(_decode(db.orders[uuid], "Order"))
                /\ uuid \in DOMAIN _mem_orders) =>
                   uuid \in DOMAIN db.open_orders


\* C28: the two open-order indices agree: a uuid is in the per-exchange open
\* set of some exchange exactly when it is in the per-symbol open set of some
\* symbol (an order's exchange and symbol are fixed by its uuid).
C28_OpenIndicesAgree ==
    \A uuid \in ManyUuids \cup AlgoUuids :
        ~InNone(_mem_open_orders, uuid) <=> ~InNone(_mem_symbol_open_orders, uuid)

\* o1 is open and in both indices while o2, indexed and then closed, is in
\* neither
C28_Witness ==
    /\ "o1" \in DefaultGet(_mem_open_orders, "binance")
    /\ "o1" \in DefaultGet(_mem_symbol_open_orders, "BTCUSDT.BINANCE")
    /\ "o2" \in DOMAIN _mem_orders
    /\ order_is_closed(_mem_orders["o2"])
    /\ "o2" \in DefaultGet(_mem_symbol_orders, "BTCUSDT.BINANCE")
    /\ InNone(_mem_open_orders, "o2")
    /\ InNone(_mem_symbol_open_orders, "o2")

====
